---- MODULE Spec2Model ----
(***************************************************************************)
(* A model of src/net.py: the Transformer of "Attention is all you need"   *)
(* written with chainer.  The module holds one state machine per part of   *)
(* the program:                                                            *)
(*   SpecTranslate  Transformer.translate, the greedy decode loop          *)
(*   SpecForward    the masks of Transformer.__call__ and the attention    *)
(*                  MultiHeadAttention.__call__ computes under them        *)
(*   SpecLoss       Transformer.output_and_loss                            *)
(*   SpecNet        Transformer.__init__ with the position-encoding table, *)
(*                  and the Encoder and Decoder stacks of a forward call   *)
(* Each specification runs one part and holds the variables of the others  *)
(* at their "off" values.                                                  *)
(* Tensors are functions over 1-based index ranges; the 0-based indices of *)
(* the source are shifted by one where that matters and the shift is said. *)
(***************************************************************************)
EXTENDS Integers, Sequences, FiniteSets, TLC

\* ------------------------------------------------------------------------
\* Bounds of the model
\* ------------------------------------------------------------------------
\* largest batch handed to translate
MaxBatch == 2
\* largest max_length argument of translate
MaxSteps == 3
\* largest length of the position-encoding table (Transformer's max_length)
MaxPos == 3

\* batch size of the forward call
FwdBatch == 2
\* x_length and y_length of the forward call
SrcLen == 2
TgtLen == 2
\* number of attention heads h
Heads == 2

\* batch size and length of the target block handed to output_and_loss
LossBatch == 2
LossLen == 2
\* n_target_vocab of the loss model
LossVocab == 2

\* largest n_layers, n_units and h handed to the constructor
MaxLayers == 2
MaxUnits == 6
MaxHeads == 4

\* Token ids arg-max can produce: 0 is the end-of-sequence id, 1 is also the
\* placeholder translate returns for an empty output, 2 is any other id.
Tokens == {0, 1, 2}

VARIABLES
    \* ---- Transformer.translate
    t_pc,        \* "off" | "loop" | "post" | "done" | "error"
    batch,       \* x_block.shape[0]
    max_length,  \* the max_length argument of translate
    pos_len,     \* the length of position_encoding_block (constructor's max_length)
    y_block,     \* [1..batch -> Seq(Tokens)]: the running target block, row b
    eos_flags,   \* [1..batch -> Nat]
    result,      \* Seq of ys, each ys in [1..batch -> Tokens]
    outs,        \* [1..batch -> Seq(Tokens)], <<>> before translate returns
    \* ---- Transformer.__call__: the masks and the three attentions
    f_pc,        \* "off" | "start" | "done"
    x_block,     \* [1..FwdBatch -> [1..SrcLen -> Int]], source ids
    y_in_block,  \* [1..FwdBatch -> [1..TgtLen -> Int]], target input ids
    xx_mask,     \* [batch -> [query -> [key -> BOOLEAN]]]
    xy_mask,
    yy_mask,
    enc_att,     \* [a, out] of the encoder's SelfAttention
    dec_att,     \* [a, out] of the decoder's SelfAttention
    src_att,     \* [a, out] of the decoder's SourceAttention
    \* ---- Transformer.output_and_loss
    l_pc,                 \* "off" | "start" | "done"
    use_label_smoothing,  \* the constructor's flag
    t_block,              \* [1..LossBatch -> [1..LossLen -> Int]], target ids
    logit_seed,           \* numbers the logits concat_logit_block
    n_token,
    normalizer,
    loss,                 \* the returned loss: a fraction or NaN
    loss_terms,           \* the flat positions that put a term into the loss
    accuracy,             \* [correct, counted]: flat positions F.accuracy uses
    reported_loss,        \* the 'loss' handed to the reporter
    zero_div,             \* a division by a zero n_token or normalizer was made
    \* ---- Transformer.__init__ and the layer stacks of Transformer.__call__
    c_pc,        \* "off" | "new" | "constructed" | "init_error" | "encoding"
                 \* | "decoding" | "done" | "forward_error"
    n_layers,    \* constructor arguments
    n_units,
    h,
    length,      \* the constructor's max_length, as initialize_position_encoding names it
    position_encoding_block,  \* [feature 0..n_units-1 -> [column 0..length-1 -> entry]]
    layer_names, \* Encoder.layer_names, the same in the Decoder
    layer_i,     \* how many names the running "for name in self.layer_names" has taken
    e,           \* the tensor the running stack holds
    z_blocks,    \* the encoder's result
    h_block      \* the decoder's result

translateVars == <<t_pc, batch, max_length, pos_len, y_block, eos_flags, result, outs>>
forwardVars == <<f_pc, x_block, y_in_block, xx_mask, xy_mask, yy_mask,
                 enc_att, dec_att, src_att>>
lossVars == <<l_pc, use_label_smoothing, t_block, logit_seed, n_token, normalizer,
              loss, loss_terms, accuracy, reported_loss, zero_div>>
netVars == <<c_pc, n_layers, n_units, h, length, position_encoding_block,
             layer_names, layer_i, e, z_blocks, h_block>>
vars == <<translateVars, forwardVars, lossVars, netVars>>
\* what each part of the program leaves alone
notTranslate == <<forwardVars, lossVars, netVars>>
notForward == <<translateVars, lossVars, netVars>>
notLoss == <<translateVars, forwardVars, netVars>>
notNet == <<translateVars, forwardVars, lossVars>>

\* The parts of the program a specification does not run.
TranslateOff ==
    /\ t_pc = "off" /\ batch = 0 /\ max_length = 0 /\ pos_len = 0
    /\ y_block = <<>> /\ eos_flags = <<>> /\ result = <<>> /\ outs = <<>>
ForwardOff ==
    /\ f_pc = "off" /\ x_block = <<>> /\ y_in_block = <<>>
    /\ xx_mask = <<>> /\ xy_mask = <<>> /\ yy_mask = <<>>
    /\ enc_att = <<>> /\ dec_att = <<>> /\ src_att = <<>>
LossOff ==
    /\ l_pc = "off" /\ use_label_smoothing = FALSE /\ t_block = <<>>
    /\ logit_seed = 0 /\ n_token = 0 /\ normalizer = 0 /\ loss = <<>>
    /\ loss_terms = {} /\ accuracy = <<>> /\ reported_loss = <<>>
    /\ zero_div = FALSE
NetOff ==
    /\ c_pc = "off" /\ n_layers = 0 /\ n_units = 0 /\ h = 0 /\ length = 0
    /\ position_encoding_block = <<>> /\ layer_names = <<>> /\ layer_i = 0
    /\ e = <<>> /\ z_blocks = <<>> /\ h_block = <<>>

Min(a, b) == IF a <= b THEN a ELSE b

\* ========================================================================
\* Transformer.translate
\* ========================================================================

\* make_input_embedding adds position_encoding_block[:, :, :length] to the
\* (batch, units, length) embedding.  The slice has min(length, pos_len)
\* columns; the addition broadcasts only when that equals length or is 1.
EmbeddingFails(len) ==
    /\ Min(len, pos_len) # len
    /\ Min(len, pos_len) # 1

\* The forward call of the decode loop, self(x_block, y_block, y_block,
\* get_prediction=True), raises when the embedding of y_block does.
ForwardFails == EmbeddingFails(Len(y_block[1]))

\* The "Remove EOS taggs" loop body: y[:inds[0, 0]] when y holds a 0, else y;
\* then [1] when that is empty.  (RemoveEOS_KeepsEOS cuts after the 0.)
RemoveEOS_KeepsEOS(y) ==
    LET inds == {j \in 1..Len(y) : y[j] = 0}
        first == CHOOSE j \in inds : \A k \in inds : j <= k
        cut == IF inds # {} THEN SubSeq(y, 1, first) ELSE y
    IN  IF Len(cut) = 0 THEN <<1>> ELSE cut

RemoveEOS(y) ==
    LET inds == {j \in 1..Len(y) : y[j] = 0}
        first == CHOOSE j \in inds : \A k \in inds : j <= k
        cut == IF inds # {} THEN SubSeq(y, 1, first - 1) ELSE y
    IN  IF Len(cut) = 0 THEN <<1>> ELSE cut

\* Row b of xp.stack(result).T
ResultRow(b) == [s \in 1..Len(result) |-> result[s][b]]

TranslateInit ==
    /\ t_pc = "loop"
    /\ batch \in 1..MaxBatch
    /\ max_length \in 0..MaxSteps
    /\ pos_len \in 1..MaxPos
    /\ y_block = [b \in 1..batch |-> <<0>>]
    /\ eos_flags = [b \in 1..batch |-> 0]
    /\ result = <<>>
    /\ outs = [b \in 1..batch |-> <<>>]
    /\ ForwardOff
    /\ LossOff
    /\ NetOff

\* One iteration of "for i in range(max_length)"; i = Len(result).
DecodeStep ==
    /\ t_pc = "loop"
    /\ Len(result) < max_length
    /\ IF ForwardFails
       THEN /\ t_pc' = "error"
            /\ UNCHANGED <<y_block, eos_flags, result>>
       ELSE \E ys \in [1..batch -> Tokens] :
            /\ result' = Append(result, ys)
            /\ y_block' = [b \in 1..batch |-> Append(y_block[b], ys[b])]
            /\ eos_flags' = [b \in 1..batch |->
                               eos_flags[b] + (IF ys[b] = 0 THEN 1 ELSE 0)]
            /\ t_pc' = IF \A b \in 1..batch : eos_flags'[b] # 0
                       THEN "post" ELSE "loop"
    /\ UNCHANGED <<batch, max_length, pos_len, outs>>
    /\ UNCHANGED notTranslate

\* range(max_length) is exhausted
LoopExhausted ==
    /\ t_pc = "loop"
    /\ Len(result) >= max_length
    /\ t_pc' = "post"
    /\ UNCHANGED <<batch, max_length, pos_len, y_block, eos_flags, result, outs>>
    /\ UNCHANGED notTranslate

\* xp.stack(result).T and the "Remove EOS taggs" loop.  xp.stack of an empty
\* list raises.
StripAndReturn ==
    /\ t_pc = "post"
    /\ IF Len(result) = 0
       THEN /\ t_pc' = "error"
            /\ outs' = outs
       ELSE /\ outs' = [b \in 1..batch |-> RemoveEOS(ResultRow(b))]
            /\ t_pc' = "done"
    /\ UNCHANGED <<batch, max_length, pos_len, y_block, eos_flags, result>>
    /\ UNCHANGED notTranslate

TranslateNext == DecodeStep \/ LoopExhausted \/ StripAndReturn

SpecTranslate == TranslateInit /\ [][TranslateNext]_vars

\* ------------------------------------------------------------------------
\* Claims about translate
\* ------------------------------------------------------------------------

\* The tokens generated for batch entry b: y_block without its seed column.
Generated(b) == Tail(y_block[b])

\* The longest prefix of g that holds no 0.
ZeroFreePrefix(g) ==
    SubSeq(g, 1, Cardinality({j \in 1..Len(g) : \A k \in 1..j : g[k] # 0}))

\* Every batch entry has emitted 0 within the first s steps.
AllEmittedBy(s) ==
    \A b \in 1..batch : \E j \in 1..s : Generated(b)[j] = 0

\* C1: when translate returns, it returns one sequence per batch entry, and
\* each is the entry's generated tokens cut just before the first 0, or <<1>>
\* when that cut is empty; so no output is empty, none holds a 0, and nothing
\* generated after the first 0 is in it.
C1_TranslateOutput ==
    t_pc = "done" =>
        /\ DOMAIN outs = 1..batch
        /\ \A b \in 1..batch :
            LET cut == ZeroFreePrefix(Generated(b))
            IN  /\ outs[b] = (IF cut = <<>> THEN <<1>> ELSE cut)
                /\ outs[b] # <<>>
                /\ \A j \in 1..Len(outs[b]) : outs[b][j] # 0

\* C1 witness: translate has returned a batch of which one entry emitted 0 at
\* once and two more tokens after it (placeholder returned), while another
\* emitted two tokens and then 0.
C1_Witness ==
    /\ t_pc = "done"
    /\ \E b \in 1..batch :
        /\ Generated(b) = <<0, 2, 1>>
        /\ outs[b] = <<1>>
    /\ \E b \in 1..batch :
        /\ Generated(b) = <<2, 1, 0>>
        /\ outs[b] = <<2, 1>>

\* The step count of the decode loop once it is over: it ran max_length steps
\* with some entry still without a 0 before the last step, or it stopped at
\* the first step by which every entry had emitted 0.
StepCountAsClaimed ==
    LET n == Len(result)
    IN  IF AllEmittedBy(n)
        THEN n >= 1 /\ ~AllEmittedBy(n - 1) /\ n <= max_length
        ELSE n = max_length

\* C2: called with max_length >= 1, the decode loop ends without error after
\* exactly min(max_length, k) steps, k the first step by which every entry has
\* emitted 0; it takes no step once all have emitted 0, does not stop before,
\* and returns no sequence longer than max_length.
C2_DecodeTerminates ==
    max_length >= 1 =>
        /\ t_pc # "error"
        /\ (t_pc = "loop" /\ Len(result) >= 1) => ~AllEmittedBy(Len(result))
        /\ t_pc \in {"post", "done"} => StepCountAsClaimed
        /\ t_pc = "done" => \A b \in 1..batch : Len(outs[b]) <= max_length

\* What remains of C2 on the runs in which no forward call raises.
DecodeStepCountIfNoError ==
    (max_length >= 1 /\ t_pc # "error") =>
        /\ (t_pc = "loop" /\ Len(result) >= 1) => ~AllEmittedBy(Len(result))
        /\ t_pc \in {"post", "done"} => StepCountAsClaimed
        /\ t_pc = "done" => \A b \in 1..batch : Len(outs[b]) <= max_length

\* ========================================================================
\* Transformer.__call__: masks, and MultiHeadAttention under them
\* ========================================================================

\* The id of a real token at position j, and the padding id of batch entry b
\* (any negative id: -1, -2, ...).
RealId(j) == j % 2
PadId(b) == 0 - b

\* A block as the batch converter pads it: entry b holds lens[b] real tokens
\* and then padding.
PaddedBlock(lens, len) ==
    [b \in DOMAIN lens |->
        [j \in 1..len |-> IF j <= lens[b] THEN RealId(j) ELSE PadId(b)]]

\* mask[b][s][t] = (target_block[b][t] >= 0) * (source_block[b][s] >= 0)
make_attention_mask(source_block, target_block) ==
    [b \in DOMAIN source_block |->
        [s \in DOMAIN source_block[b] |->
            [t \in DOMAIN target_block[b] |->
                (target_block[b][t] >= 0) /\ (source_block[b][s] >= 0)]]]

\* (arange[None, ] <= arange[:, None])[None, ], broadcast over the batch:
\* element [i][j] is arange[j] <= arange[i].
\* (make_retrospective_mask_Transposed compares the other way round.)
make_retrospective_mask_Transposed(block) ==
    [b \in DOMAIN block |->
        [i \in DOMAIN block[b] |-> [j \in DOMAIN block[b] |-> i <= j]]]

make_retrospective_mask(block) ==
    [b \in DOMAIN block |->
        [i \in DOMAIN block[b] |-> [j \in DOMAIN block[b] |-> j <= i]]]

\* yy_mask *= retrospective_mask
MaskTimes(m1, m2) ==
    [b \in DOMAIN m1 |->
        [i \in DOMAIN m1[b] |-> [j \in DOMAIN m1[b][i] |-> m1[b][i][j] /\ m2[b][i][j]]]]

\* ---- numbers of the attention: a score is a small integer or -inf; a weight
\* is the exact fraction num/den, or NaN.  Base 2 stands for e.
NegInf == [inf |-> TRUE, v |-> 0]
Finite(v) == [inf |-> FALSE, v |-> v]
Exp2(s) == IF s.inf THEN 0 ELSE 2 ^ s.v
NaN == [nan |-> TRUE, num |-> 0, den |-> 0]
Frac(n, d) == [nan |-> FALSE, num |-> n, den |-> d]
Zero == Frac(0, 1)
IsZero(w) == ~w.nan /\ w.num = 0

\* f[lo] + ... + f[hi] and f[lo] * ... * f[hi]
RECURSIVE Sum(_, _, _)
Sum(f, lo, hi) == IF hi < lo THEN 0 ELSE f[hi] + Sum(f, lo, hi - 1)

RECURSIVE Prod(_, _, _)
Prod(f, lo, hi) == IF hi < lo THEN 1 ELSE f[hi] * Prod(f, lo, hi - 1)

\* The scaled dot product of query q and key k of pseudo-batch entry p, and
\* the value of key k, for the parameters and inputs numbered seed.
Score(seed, p, q, k) == (seed + p + q + 2 * k) % 3
Value(seed, p, k) == 1 + ((seed + p + k) % 2)
FinishingWeight(u, hd) == 1 + ((u + hd) % 2)

\* F.concat(F.split_axis(t, h, axis=1), axis=0): head hd of batch entry b is
\* pseudo-batch entry hd * batch + b (0-based); here hd is 0-based, b 1-based.
PseudoIndex(hd, b, nbatch) == hd * nbatch + b

\* xp.concatenate([mask] * h, axis=0): pseudo-batch entry p reads mask row
\* (p - 1) mod batch (+ 1).  (ConcatMaskRow_Repeat is xp.repeat(mask, h, axis=0).)
ConcatMaskRow_Repeat(p, nbatch, heads) == ((p - 1) \div heads) + 1

ConcatMaskRow(p, nbatch, heads) == ((p - 1) % nbatch) + 1

\* F.softmax over the key axis: exp(x - max) / sum; a row of -inf alone has
\* max -inf and -inf - (-inf) is NaN in every place.
Softmax(row) ==
    LET n == Len(row)
        den == Sum([k \in 1..n |-> Exp2(row[k])], 1, n)
    IN  IF \A k \in 1..n : row[k].inf
        THEN [k \in 1..n |-> NaN]
        ELSE [k \in 1..n |-> Frac(Exp2(row[k]), den)]

\* a = F.where(xp.isnan(a.data), xp.zeros(a.shape, 'f'), a)
\* (ReplaceNaN_Missing leaves the line out.)
ReplaceNaN_Missing(w) == w

ReplaceNaN(w) == IF w.nan THEN Zero ELSE w

\* sum over keys of a * value, for one query of one pseudo-batch entry: the
\* weights of a row share their denominator.
WeightedSum(wrow, vrow) ==
    LET n == Len(wrow)
    IN  IF \E k \in 1..n : wrow[k].nan THEN NaN
        ELSE IF \A k \in 1..n : wrow[k].num = 0 THEN Zero
        ELSE Frac(Sum([k \in 1..n |-> wrow[k].num * vrow[k]], 1, n), wrow[1].den)

\* FinishingLinearLayer (no bias) at one position: the sum over the heads of
\* weight * concat_c, the fractions brought to the product of the denominators.
\* crow[i] is head i - 1.
Linear(u, crow) ==
    LET heads == Len(crow)
        dens == [i \in 1..heads |-> crow[i].den]
        term == [i \in 1..heads |->
                   FinishingWeight(u, i - 1) * crow[i].num
                     * Prod(dens, 1, i - 1) * Prod(dens, i + 1, heads)]
    IN  IF \E i \in 1..heads : crow[i].nan THEN NaN
        ELSE Frac(Sum(term, 1, heads), Prod(dens, 1, heads))

\* MultiHeadAttention.__call__ from the masking on, with h heads of width 1
\* (n_units = h): a is (batch * h, n_querys, n_keys), out is
\* (batch, n_units, n_querys).
MultiHeadAttention(nbatch, heads, n_querys, n_keys, mask, seed) ==
    LET P == 1..(nbatch * heads)
        masked == [p \in P |-> [q \in 1..n_querys |-> [k \in 1..n_keys |->
                     IF mask[ConcatMaskRow(p, nbatch, heads)][q][k]
                     THEN Finite(Score(seed, p, q, k)) ELSE NegInf]]]
        a == [p \in P |-> [q \in 1..n_querys |->
                LET sm == Softmax(masked[p][q])
                IN  [k \in 1..n_keys |-> ReplaceNaN(sm[k])]]]
        multi_c == [p \in P |-> [q \in 1..n_querys |->
                      WeightedSum(a[p][q], [k \in 1..n_keys |-> Value(seed, p, k)])]]
        \* F.concat(F.split_axis(multi_c, heads, axis=0), axis=1)
        concat_c == [b \in 1..nbatch |-> [q \in 1..n_querys |->
                       [i \in 1..heads |-> multi_c[PseudoIndex(i - 1, b, nbatch)][q]]]]
        lineared_c == [b \in 1..nbatch |-> [u \in 0..(heads - 1) |->
                         [q \in 1..n_querys |-> Linear(u, concat_c[b][q])]]]
    IN  [a |-> a, out |-> lineared_c]

Seeds == {0, 1}

ForwardInit ==
    /\ f_pc = "start"
    /\ \E xl \in [1..FwdBatch -> 0..SrcLen] : x_block = PaddedBlock(xl, SrcLen)
    /\ \E yl \in [1..FwdBatch -> 0..TgtLen] : y_in_block = PaddedBlock(yl, TgtLen)
    /\ xx_mask = <<>> /\ xy_mask = <<>> /\ yy_mask = <<>>
    /\ enc_att = <<>> /\ dec_att = <<>> /\ src_att = <<>>
    /\ TranslateOff
    /\ LossOff
    /\ NetOff

\* Transformer.__call__: the masks, then the attention of the encoder layer
\* and the two attentions of the decoder layer.
Forward ==
    /\ f_pc = "start"
    /\ LET xx == make_attention_mask(x_block, x_block)
           xy == make_attention_mask(y_in_block, x_block)
           yy == MaskTimes(make_attention_mask(y_in_block, y_in_block),
                           make_retrospective_mask(y_in_block))
       IN  /\ xx_mask' = xx
           /\ xy_mask' = xy
           /\ yy_mask' = yy
           /\ \E seed \in Seeds :
                /\ enc_att' = MultiHeadAttention(FwdBatch, Heads, SrcLen, SrcLen, xx, seed)
                /\ dec_att' = MultiHeadAttention(FwdBatch, Heads, TgtLen, TgtLen, yy, seed)
                /\ src_att' = MultiHeadAttention(FwdBatch, Heads, TgtLen, SrcLen, xy, seed)
    /\ f_pc' = "done"
    /\ UNCHANGED <<x_block, y_in_block>>
    /\ UNCHANGED notForward

ForwardNext == Forward

SpecForward == ForwardInit /\ [][ForwardNext]_vars

\* ------------------------------------------------------------------------
\* Claims about the masks and the attention
\* ------------------------------------------------------------------------

HeadIdx == 0..(Heads - 1)
BatchIdx == 1..FwdBatch

\* Query q of batch entry b is permitted no key by mask.
FullyMasked(mask, b, q) == \A k \in DOMAIN mask[b][q] : ~mask[b][q][k]

\* Under mask, every fully masked query has weight zero on every key in every
\* head, and output zero in every unit.
MaskedQueriesAreZero(att, mask) ==
    \A b \in BatchIdx : \A q \in DOMAIN mask[b] :
        FullyMasked(mask, b, q) =>
            /\ \A hd \in HeadIdx : \A k \in DOMAIN mask[b][q] :
                 att.a[PseudoIndex(hd, b, FwdBatch)][q][k] = Zero
            /\ \A u \in HeadIdx : att.out[b][u][q] = Zero

\* C3: for every batch entry, head and query whose mask row permits no key,
\* every attention weight of the query is exactly zero and the attention
\* output at the query is exactly zero, never NaN.
C3_FullyMaskedRowsGiveZero ==
    f_pc = "done" =>
        /\ MaskedQueriesAreZero(enc_att, xx_mask)
        /\ MaskedQueriesAreZero(dec_att, yy_mask)
        /\ MaskedQueriesAreZero(src_att, xy_mask)

\* C3 witness: a forward call in which a padded target position has no source
\* key to attend to and gets output zero, while another query of the same
\* entry gets a non-zero output.
C3_Witness ==
    /\ f_pc = "done"
    /\ \E b \in BatchIdx : \E q, q2 \in 1..TgtLen :
        /\ FullyMasked(xy_mask, b, q)
        /\ \A u \in HeadIdx : src_att.out[b][u][q] = Zero
        /\ ~FullyMasked(xy_mask, b, q2)
        /\ \E u \in HeadIdx : ~IsZero(src_att.out[b][u][q2])

\* In every head, key k of entry b has a non-zero weight from query q only if
\* the key's id in kblock and the query's id in qblock are both >= 0.
WeightOnlyOnRealTokens(att, qblock, kblock) ==
    \A b \in BatchIdx : \A hd \in HeadIdx :
        \A q \in DOMAIN qblock[b] : \A k \in DOMAIN kblock[b] :
            ~IsZero(att.a[PseudoIndex(hd, b, FwdBatch)][q][k]) =>
                (kblock[b][k] >= 0 /\ qblock[b][q] >= 0)

\* C4: in each of the three attentions of a forward call, key k receives a
\* non-zero weight from query q of (head, b) only if the ids at key k and at
\* query q of batch entry b are both >= 0: padding is never attended to, and
\* pseudo-batch entry (head, b) is masked by the mask of entry b.
C4_PaddingNeverAttended ==
    f_pc = "done" =>
        /\ WeightOnlyOnRealTokens(enc_att, x_block, x_block)
        /\ WeightOnlyOnRealTokens(dec_att, y_in_block, y_in_block)
        /\ WeightOnlyOnRealTokens(src_att, y_in_block, x_block)

\* C4 witness: two batch entries differ at a source position, real in one and
\* padding in the other; in the second head the first attends to it (from the
\* encoder and from the decoder) and the other does not.
C4_Witness ==
    /\ f_pc = "done"
    /\ \E b, b2 \in BatchIdx : \E k \in 1..SrcLen : \E q \in 1..TgtLen :
        /\ x_block[b][k] >= 0 /\ x_block[b2][k] < 0
        /\ y_in_block[b][q] >= 0 /\ y_in_block[b2][q] >= 0
        /\ ~IsZero(enc_att.a[PseudoIndex(1, b, FwdBatch)][1][k])
        /\ IsZero(enc_att.a[PseudoIndex(1, b2, FwdBatch)][1][k])
        /\ ~IsZero(src_att.a[PseudoIndex(1, b, FwdBatch)][q][k])
        /\ IsZero(src_att.a[PseudoIndex(1, b2, FwdBatch)][q][k])

\* C8: the decoder self-attention mask permits (query i, key j) of entry b
\* iff j <= i and the target ids at i and j are both >= 0; the causal part
\* permits key j for query i iff j <= i, the same for every entry, and lies on
\* the axes of the score matrix: in every head the weight of key j for query
\* i is non-zero exactly where the pair is permitted.
C8_DecoderSelfMask ==
    f_pc = "done" =>
        \A b \in BatchIdx : \A i, j \in 1..TgtLen :
            LET permitted == j <= i /\ y_in_block[b][i] >= 0 /\ y_in_block[b][j] >= 0
            IN  /\ yy_mask[b][i][j] = permitted
                /\ make_retrospective_mask(y_in_block)[b][i][j] = (j <= i)
                /\ \A hd \in HeadIdx :
                     (~IsZero(dec_att.a[PseudoIndex(hd, b, FwdBatch)][i][j])) = permitted

\* C8 witness: an entry without padding, whose second position attends to the
\* first and whose first position does not attend to the second.
C8_Witness ==
    /\ f_pc = "done"
    /\ \E b \in BatchIdx :
        /\ \A j \in 1..TgtLen : y_in_block[b][j] >= 0
        /\ yy_mask[b][2][1] /\ ~yy_mask[b][1][2]
        /\ ~IsZero(dec_att.a[PseudoIndex(1, b, FwdBatch)][2][1])
        /\ IsZero(dec_att.a[PseudoIndex(1, b, FwdBatch)][1][2])

\* ========================================================================
\* Transformer.output_and_loss
\* ========================================================================

\* Target ids: real ids 0 and 1, the padding id -1, and another negative id.
\* (An id below -n_target_vocab is left out: the label-smoothing branch indexes
\* log_prob with it.)
TargetIds == {-2, -1, 0, 1}
Classes == 0..(LossVocab - 1)
FlatIdx == 1..(LossBatch * LossLen)

\* t_block.reshape((rebatch)): row-major, entry b position j is flat position
\* (b - 1) * length + j.
Reshape(block) ==
    [p \in FlatIdx |-> block[((p - 1) \div LossLen) + 1][((p - 1) % LossLen) + 1]]

\* log_softmax of the logits at flat position p, class c: a negative integer
\* stands for the log-probability.
LogProb(seed, p, c) == 0 - (1 + ((seed + p + c) % 2)) - (IF c = 0 THEN 1 ELSE 0)

\* The class arg-max picks at flat position p.
Prediction(seed, p) ==
    CHOOSE c \in Classes : \A d \in Classes :
        \/ LogProb(seed, p, c) > LogProb(seed, p, d)
        \/ (LogProb(seed, p, c) = LogProb(seed, p, d) /\ c <= d)

\* Sum of f over the flat positions in S.
RECURSIVE SumSet(_, _)
SumSet(f, S) ==
    IF S = {} THEN 0
    ELSE LET x == CHOOSE x \in S : TRUE IN f[x] + SumSet(f, S \ {x})

\* a / n as numpy divides: NaN or inf, and no exception, when n is 0.
Div(a, n) == IF a.nan \/ n = 0 THEN NaN ELSE Frac(a.num, a.den * n)
Times(a, n) == IF a.nan THEN NaN ELSE Frac(a.num * n, a.den)

\* ignore_mask = (concat_t_block >= 0)
ignore_mask(t) == [p \in DOMAIN t |-> t[p] >= 0]

\* F.softmax_cross_entropy(x, t) with its defaults ignore_label=-1 and
\* normalize=True: the mean over the positions whose label is not -1 of
\* -log_p[max(t, 0)], the count floored at 1.
SceTerms(t) == {p \in DOMAIN t : t[p] # -1}
softmax_cross_entropy(seed, t) ==
    LET count == Cardinality(SceTerms(t))
    IN  Frac(SumSet([p \in DOMAIN t |->
                       0 - LogProb(seed, p, IF t[p] >= 0 THEN t[p] ELSE 0)],
                    SceTerms(t)),
             IF count >= 1 THEN count ELSE 1)

\* F.accuracy(y, t, ignore_label=-1): the positions counted, and those of
\* them predicted right.
Accuracy(seed, t) ==
    LET counted == {p \in DOMAIN t : t[p] # -1}
    IN  [counted |-> counted,
         correct |-> {p \in counted : Prediction(seed, p) = t[p]}]

\* The label-smoothing branch: - F.sum(ignore_mask * log_prob[arange, t]) /
\* normalizer.  A negative t indexes log_prob from the end; the mask zeroes it.
MaskedNll(seed, t) ==
    LET mask == ignore_mask(t)
    IN  Frac(SumSet([p \in DOMAIN t |->
                       IF mask[p] THEN 0 - LogProb(seed, p, t[p]) ELSE 0],
                    DOMAIN t), 1)

\* F.sum(broad_ignore_mask * -1. / n_target_vocab * log_prob)
SmoothingSum(seed, t) ==
    LET mask == ignore_mask(t)
    IN  Frac(SumSet([p \in DOMAIN t |->
                       IF mask[p]
                       THEN SumSet([c \in Classes |-> 0 - LogProb(seed, p, c)], Classes)
                       ELSE 0],
                    DOMAIN t), LossVocab)

\* 0.9 * loss + 0.1 * label_smoothing
Blend(a, b) ==
    IF a.nan \/ b.nan THEN NaN
    ELSE Frac(9 * a.num * b.den + b.num * a.den, 10 * a.den * b.den)

LossInit ==
    /\ l_pc = "start"
    /\ use_label_smoothing \in BOOLEAN
    /\ t_block \in [1..LossBatch -> [1..LossLen -> TargetIds]]
    /\ logit_seed \in Seeds
    /\ n_token = 0 /\ normalizer = 0 /\ loss = <<>>
    /\ loss_terms = {} /\ accuracy = <<>> /\ reported_loss = <<>>
    /\ zero_div = FALSE
    /\ TranslateOff
    /\ ForwardOff
    /\ NetOff

output_and_loss ==
    /\ l_pc = "start"
    /\ LET concat_t_block == Reshape(t_block)
           mask == ignore_mask(concat_t_block)
           n == Cardinality({p \in FlatIdx : mask[p]})
           \* loss before the smoothing term is blended in
           plain == IF ~use_label_smoothing
                    THEN Div(Times(softmax_cross_entropy(logit_seed, concat_t_block), n), n)
                    ELSE Div(MaskedNll(logit_seed, concat_t_block), n)
       IN  /\ n_token' = n
           /\ normalizer' = n
           /\ loss_terms' = IF ~use_label_smoothing
                            THEN SceTerms(concat_t_block)
                            ELSE {p \in FlatIdx : mask[p]}
           /\ accuracy' = Accuracy(logit_seed, concat_t_block)
           /\ reported_loss' = Div(Times(plain, n), n)
           /\ loss' = IF ~use_label_smoothing
                      THEN plain
                      ELSE Blend(plain, Div(SmoothingSum(logit_seed, concat_t_block), n))
           /\ zero_div' = (n = 0)
    /\ l_pc' = "done"
    /\ UNCHANGED <<use_label_smoothing, t_block, logit_seed>>
    /\ UNCHANGED notLoss

LossNext == output_and_loss

SpecLoss == LossInit /\ [][LossNext]_vars

\* ------------------------------------------------------------------------
\* Claims about the loss
\* ------------------------------------------------------------------------

\* Equality of two fractions.
SameNumber(a, b) == a.nan = b.nan /\ a.num * b.den = b.num * a.den

RealPositions == {p \in FlatIdx : Reshape(t_block)[p] >= 0}

\* The loss the real positions alone give: the mean of -log_prob at the
\* target, blended with the smoothing term when label smoothing is on.
LossOfRealPositions ==
    LET t == Reshape(t_block)
        n == Cardinality(RealPositions)
        nll == Frac(SumSet([p \in FlatIdx |-> 0 - LogProb(logit_seed, p, t[p])],
                           RealPositions), n)
        smooth == Frac(SumSet([p \in FlatIdx |->
                          SumSet([c \in Classes |-> 0 - LogProb(logit_seed, p, c)], Classes)],
                          RealPositions), LossVocab * n)
    IN  IF use_label_smoothing THEN Blend(nll, smooth) ELSE nll

\* C5: in both modes every position whose target id is negative is left out
\* of the loss: it puts no term into the sum, is not counted in n_token, is
\* ignored by the accuracy, and the loss is that of the real positions alone.
C5_NegativeTargetsExcluded ==
    l_pc = "done" =>
        /\ loss_terms \subseteq RealPositions
        /\ n_token = Cardinality(RealPositions)
        /\ accuracy.counted \subseteq RealPositions
        /\ n_token > 0 => SameNumber(loss, LossOfRealPositions)

\* C6: the normalizer is the number of target positions with id >= 0, and
\* no division by a zero normalizer is made.
C6_ZeroNormalizerGuarded ==
    l_pc = "done" =>
        /\ normalizer = Cardinality(RealPositions)
        /\ ~zero_div
        /\ ~loss.nan

\* What holds of the normalizer: it is the number of positions with id >= 0.
NormalizerCountsRealPositions ==
    l_pc = "done" => normalizer = Cardinality(RealPositions) /\ n_token = normalizer

\* What holds of the label-smoothing mode, and of the standard mode when the
\* only negative id is -1.
LossExcludesPaddingWhereItDoes ==
    (l_pc = "done" /\ n_token > 0
        /\ (use_label_smoothing \/ \A p \in FlatIdx : Reshape(t_block)[p] # -2)) =>
        /\ loss_terms = RealPositions
        /\ SameNumber(loss, LossOfRealPositions)

\* ========================================================================
\* Transformer.__init__ and the Encoder and Decoder stacks
\* ========================================================================

\* MultiHeadAttention.__init__: self.scale_score = 1. / (n_units // h) ** 0.5
\* divides by zero when n_units // h is 0.  Nothing else reads h.
AttentionInitFails(units, heads) == units \div heads = 0

\* Encoder.__init__ and Decoder.__init__ build an attention per layer.
StacksInitFail(layers, units, heads) ==
    layers >= 1 /\ AttentionInitFails(units, heads)

\* Encoder.__init__ / Decoder.__init__: 'l1' .. 'lN' from range(1, n_layers + 1);
\* the name 'l<i>' is the number i.  (LayerNames_Reversed lists them backwards.)
LayerNames_Reversed(layers) == [i \in 1..layers |-> layers + 1 - i]

LayerNames(layers) == [i \in 1..layers |-> i]

\* ---- initialize_position_encoding
\* unit_block = xp.arange(start, n_units // 2 + start): row r (0-based) holds
\* start + r, with start = 1.  (UnitBlock_FromZero starts the rows at 0.)
start == 1
UnitBlock_FromZero(units) == [r \in 0..((units \div 2) - 1) |-> r]

UnitBlock(units) == [r \in 0..((units \div 2) - 1) |-> start + r]

\* posi_block = xp.arange(start, length + start): column c (0-based)
PosiBlock(len) == [c \in 0..(len - 1) |-> start + c]

\* An entry of the table: fn(pos / 10000 ** (num / den)), fn sin or cos.
\* rad_block = posi_block / 10000. ** (unit_block / (n_units // 2))
Entry(fn, pos, num, den) == [fn |-> fn, pos |-> pos, num |-> num, den |-> den]
SinBlock(units, len) ==
    [r \in 0..((units \div 2) - 1) |-> [c \in 0..(len - 1) |->
        Entry("sin", PosiBlock(len)[c], UnitBlock(units)[r], units \div 2)]]
CosBlock(units, len) ==
    [r \in 0..((units \div 2) - 1) |-> [c \in 0..(len - 1) |->
        Entry("cos", PosiBlock(len)[c], UnitBlock(units)[r], units \div 2)]]

\* position_encoding_block[:, ::2, :] = sin_block assigns units // 2 rows to
\* the (units + 1) // 2 even features: numpy broadcasts when the two are
\* equal or sin_block has one row, and raises otherwise.
PositionEncodingFails(units) ==
    /\ (units + 1) \div 2 # units \div 2
    /\ units \div 2 # 1

\* Feature f of the table: even features from sin_block, odd from cos_block;
\* a one-row sin_block is broadcast over the even features.
PositionEncoding(units, len) ==
    [f \in 0..(units - 1) |->
        IF f % 2 = 0
        THEN SinBlock(units, len)[IF units \div 2 = 1 THEN 0 ELSE f \div 2]
        ELSE CosBlock(units, len)[f \div 2]]

\* ---- tensors of the stacks: a tensor is the sequence of the operations
\* that made it, each with the tensor it attended to.
Op(name, layer, source) == [op |-> name, layer |-> layer, source |-> source]
Embedded(which) == <<Op(which, 0, <<>>)>>
EncoderLayer(name, x, xx) == Append(x, Op("enc", name, <<>>))
DecoderLayer(name, x, s) == Append(x, Op("dec", name, s))

\* F.split_axis(query, h, axis=1) in MultiHeadAttention.__call__ raises when
\* n_units is not a multiple of h.
AttentionCallFails == n_units % h # 0

NetInit ==
    /\ c_pc = "new"
    /\ n_layers \in 0..MaxLayers
    /\ n_units \in 1..MaxUnits
    /\ h \in 1..MaxHeads
    /\ length \in 1..MaxPos
    /\ position_encoding_block = <<>> /\ layer_names = <<>> /\ layer_i = 0
    /\ e = <<>> /\ z_blocks = <<>> /\ h_block = <<>>
    /\ TranslateOff
    /\ ForwardOff
    /\ LossOff

\* Transformer.__init__
Construct ==
    /\ c_pc = "new"
    /\ IF StacksInitFail(n_layers, n_units, h) \/ PositionEncodingFails(n_units)
       THEN /\ c_pc' = "init_error"
            /\ UNCHANGED <<layer_names, position_encoding_block>>
       ELSE /\ c_pc' = "constructed"
            /\ layer_names' = LayerNames(n_layers)
            /\ position_encoding_block' = PositionEncoding(n_units, length)
    /\ UNCHANGED <<n_layers, n_units, h, length, layer_i, e, z_blocks, h_block>>
    /\ UNCHANGED notNet

\* Transformer.__call__ up to the call of the encoder
ForwardStart ==
    /\ c_pc = "constructed"
    /\ c_pc' = "encoding"
    /\ e' = Embedded("ex_block")
    /\ layer_i' = 0
    /\ UNCHANGED <<n_layers, n_units, h, length, position_encoding_block,
                   layer_names, z_blocks, h_block>>
    /\ UNCHANGED notNet

\* One turn of Encoder.__call__'s loop
EncoderStep ==
    /\ c_pc = "encoding"
    /\ layer_i < Len(layer_names)
    /\ IF AttentionCallFails
       THEN /\ c_pc' = "forward_error"
            /\ UNCHANGED <<e, layer_i>>
       ELSE /\ e' = EncoderLayer(layer_names[layer_i + 1], e, "xx_mask")
            /\ layer_i' = layer_i + 1
            /\ c_pc' = c_pc
    /\ UNCHANGED <<n_layers, n_units, h, length, position_encoding_block,
                   layer_names, z_blocks, h_block>>
    /\ UNCHANGED notNet

\* Encoder.__call__ returns e; Transformer.__call__ calls the decoder
EncoderReturn ==
    /\ c_pc = "encoding"
    /\ layer_i = Len(layer_names)
    /\ z_blocks' = e
    /\ e' = Embedded("ey_block")
    /\ layer_i' = 0
    /\ c_pc' = "decoding"
    /\ UNCHANGED <<n_layers, n_units, h, length, position_encoding_block,
                   layer_names, h_block>>
    /\ UNCHANGED notNet

\* One turn of Decoder.__call__'s loop: source is the argument z_blocks
DecoderStep ==
    /\ c_pc = "decoding"
    /\ layer_i < Len(layer_names)
    /\ IF AttentionCallFails
       THEN /\ c_pc' = "forward_error"
            /\ UNCHANGED <<e, layer_i>>
       ELSE /\ e' = DecoderLayer(layer_names[layer_i + 1], e, z_blocks)
            /\ layer_i' = layer_i + 1
            /\ c_pc' = c_pc
    /\ UNCHANGED <<n_layers, n_units, h, length, position_encoding_block,
                   layer_names, z_blocks, h_block>>
    /\ UNCHANGED notNet

DecoderReturn ==
    /\ c_pc = "decoding"
    /\ layer_i = Len(layer_names)
    /\ h_block' = e
    /\ c_pc' = "done"
    /\ UNCHANGED <<n_layers, n_units, h, length, position_encoding_block,
                   layer_names, layer_i, e, z_blocks>>
    /\ UNCHANGED notNet

NetNext ==
    \/ Construct
    \/ ForwardStart
    \/ EncoderStep
    \/ EncoderReturn
    \/ DecoderStep
    \/ DecoderReturn

SpecNet == NetInit /\ [][NetNext]_vars

\* ------------------------------------------------------------------------
\* Claims about the constructor and the stacks
\* ------------------------------------------------------------------------

Constructed == c_pc \in {"constructed", "encoding", "decoding", "done", "forward_error"}

\* C7: a model whose unit width is not a multiple of the head count is never
\* constructed: the constructor fails, and no forward call is reached that
\* fails in its place.
C7_IndivisibleUnitsRejected ==
    (n_layers >= 1 /\ n_units % h # 0) => (~Constructed /\ c_pc # "forward_error")

\* What the constructor does reject: a unit width below the head count.
ConstructorRejectsOnlyZeroHeadWidth ==
    (Constructed /\ n_layers >= 1) => n_units \div h >= 1

\* The entry at feature f, position p (column p - 1) of the table.
TableAt(f, p) == position_encoding_block[f][p - 1]

\* The entry is fn of p / 10000 ** (num / den).
IsEntry(entry, fn, p, num, den) ==
    /\ entry.fn = fn
    /\ entry.pos = p
    /\ entry.den # 0
    /\ entry.num * den = num * entry.den

\* C9 as claimed: for p in 1..max_length and pair i in 0..units/2-1 the table
\* holds sin(p / 10000^(2i/units)) at feature 2i and cos of the same angle at
\* feature 2i+1.
C9_TableAsClaimed ==
    Constructed =>
        \A p \in 1..length : \A i \in 0..((n_units \div 2) - 1) :
            /\ IsEntry(TableAt(2 * i, p), "sin", p, 2 * i, n_units)
            /\ IsEntry(TableAt(2 * i + 1, p), "cos", p, 2 * i, n_units)

\* C9 amended: for p in 1..max_length and pair i in 0..units/2-1 the table
\* holds sin(p / 10000^((i+1)/(units div 2))) at feature 2i and cos of the
\* same angle at feature 2i+1, which for even units is the exponent
\* 2(i+1)/units; pair 0 has exponent 1/(units div 2), not 0; the table has
\* units features and max_length columns and nothing but (units, max_length)
\* enters it.
C9_TableFromPairOne ==
    Constructed =>
        /\ DOMAIN position_encoding_block = 0..(n_units - 1)
        /\ \A f \in 0..(n_units - 1) : DOMAIN position_encoding_block[f] = 0..(length - 1)
        /\ \A p \in 1..length : \A i \in 0..((n_units \div 2) - 1) :
            /\ IsEntry(TableAt(2 * i, p), "sin", p, i + 1, n_units \div 2)
            /\ IsEntry(TableAt(2 * i + 1, p), "cos", p, i + 1, n_units \div 2)
            /\ n_units % 2 = 0 => IsEntry(TableAt(2 * i, p), "sin", p, 2 * (i + 1), n_units)
            /\ TableAt(2 * i, p).num # 0

\* C9 witness: a constructed model of 4 units and at least 2 positions:
\* position 2 holds sin(2 / 10000^(1/2)) at feature 0 and cos(2 / 10000^(2/2))
\* at feature 3.
C9_Witness ==
    /\ c_pc = "constructed"
    /\ n_units = 4
    /\ length >= 2
    /\ TableAt(0, 2) = Entry("sin", 2, 1, 2)
    /\ TableAt(3, 2) = Entry("cos", 2, 2, 2)

\* The tensor after encoder layers l1..lk, and after decoder layers l1..lk
\* that all attend to src.
RECURSIVE EncChain(_)
EncChain(k) ==
    IF k = 0 THEN Embedded("ex_block")
    ELSE Append(EncChain(k - 1), Op("enc", k, <<>>))

RECURSIVE DecChain(_, _)
DecChain(k, src) ==
    IF k = 0 THEN Embedded("ey_block")
    ELSE Append(DecChain(k - 1, src), Op("dec", k, src))

====
